---- MODULE Spec2Model ----
(***************************************************************************)
(* Model of state/src/facet.ts: flattening of an extension tree, the       *)
(* resolution of the flattened leaves into a Configuration, and the lazy,  *)
(* memoized, cycle-detecting evaluation of a snapshot's dynamic slots      *)
(* (ensureAddr / getAddr and the field, provider and combine slots).       *)
(***************************************************************************)
EXTENDS Integers, Sequences, FiniteSets, TLC

(***************************************************************************)
(* Bounds of the model.                                                    *)
(***************************************************************************)
\* Field values and the document version range over 0..MaxVal.
MaxVal == 2
\* Longest root extension array drawn when flatten is checked on its own.
MaxLen == 2
\* Reconfiguring transactions in one run.
MaxReconf == 1

(***************************************************************************)
(* JavaScript values.  A cell holds a scalar or an array of scalars; both  *)
(* are kept as a sequence of integers with a flag, so that values of the   *)
(* two shapes can be compared.  undefined and NaN are scalars.             *)
(***************************************************************************)
undefined == 0 - 1
NaN == 0 - 2

Scalar(x) == [arr |-> FALSE, v |-> <<x>>]
Arr(s) == [arr |-> TRUE, v |-> s]
Undefined == Scalar(undefined)
IsUndefined(a) == ~a.arr /\ a.v[1] = undefined

\* a + b on numbers; undefined or NaN operands give NaN.
Add(a, b) == IF a < 0 \/ b < 0 THEN NaN ELSE a + b

\* a === b: arrays are objects, and every array the model compares was
\* allocated by a different call, so two arrays are never identical.
StrictEq(a, b) ==
  IF a.arr \/ b.arr THEN FALSE
  ELSE a.v[1] = b.v[1] /\ a.v[1] # NaN

\* sameArray(a, b), for b defined (b.length throws on undefined).
sameArray(a, b) ==
  /\ Len(a.v) = Len(b.v)
  /\ \A i \in 1..Len(a.v) : a.v[i] = b.v[i] /\ a.v[i] # NaN

(***************************************************************************)
(* The definitions of the program under analysis: four facets, two fields  *)
(* and the providers built from them.  Ids are issued by nextID++ in       *)
(* definition order.                                                       *)
(***************************************************************************)
Tabsize == 0   \* static, combine keeps the last input, default 4
Mode == 1      \* static, combine keeps the last input, compare by parity
List == 2      \* defineFacet(): default combine, compare and compareInput
Some == 3       \* combine: 1 if some input is positive, else 0
FieldA == 4    \* update counts document changes, default compare
FieldB == 5    \* update counts selection changes, compare by parity

FacetIds == {Tabsize, Mode, List, Some}
FieldIds == {FieldA, FieldB}

isStatic(f) == f \in {Tabsize, Mode}

Last(s) == s[Len(s)]

\* FacetData.combine, on the gathered inputs (a sequence of scalars).
combine(f, values) ==
  CASE f = Tabsize -> Scalar(IF values = <<>> THEN 4 ELSE Last(values))
    [] f = Mode -> Scalar(IF values = <<>> THEN 0 ELSE Last(values))
    [] f = List -> Arr(values)
    [] OTHER -> Scalar(IF \E i \in 1..Len(values) : values[i] > 0 THEN 1 ELSE 0)

\* FacetData.default
default(f) == combine(f, <<>>)

\* FacetData.compare(a, b); CompareThrows tells when it raises a TypeError.
compare(f, a, b) ==
  CASE f = Mode -> ~a.arr /\ ~b.arr /\ a.v[1] >= 0 /\ b.v[1] >= 0
                   /\ a.v[1] % 2 = b.v[1] % 2
    [] f = List -> sameArray(a, b)
    [] OTHER -> StrictEq(a, b)

CompareThrows(f, a, b) == f = List /\ IsUndefined(b)

\* FacetData.compareInput(a, b)
compareInput(f, a, b) == StrictEq(a, b)

\* StateField.createF
createF(id) == Scalar(0)

\* StateField.updateF(value, tr, state)
updateF(id, value, tr) ==
  LET fired == IF id = FieldA THEN tr.docChanged ELSE tr.selectionSet
  IN IF ~fired THEN value
     ELSE IF value.arr \/ value.v[1] < 0 THEN Scalar(NaN)
     ELSE Scalar((value.v[1] + 1) % (MaxVal + 1))

\* StateField.compareF(a, b)
compareF(id, a, b) ==
  IF id = FieldB
  THEN ~a.arr /\ ~b.arr /\ a.v[1] >= 0 /\ b.v[1] >= 0 /\ a.v[1] % 2 = b.v[1] % 2
  ELSE StrictEq(a, b)

(***************************************************************************)
(* Provider kinds and precedences.                                         *)
(***************************************************************************)
Static == 0
Single == 1
Multi == 2

Override == 0
Extend == 1
Default == 2
Fallback == 3

(***************************************************************************)
(* The extension objects of the program, by reference.  Providers, field   *)
(* instances, arrays and precedence wrappers are objects with an identity; *)
(* the same object may be reached several times from a root.               *)
(***************************************************************************)
DepDoc == [t |-> "doc", id |-> 0]
DepSel == [t |-> "selection", id |-> 0]
DepField(id) == [t |-> "field", id |-> id]
DepFacet(id) == [t |-> "facet", id |-> id]

StaticProvider(id, f, x) ==
  [type |-> "provider", id |-> id, facet |-> f, kind |-> Static,
   dependencies |-> <<>>, get |-> "value", value |-> Scalar(x)]
ComputedProvider(id, f, kind, deps, get) ==
  [type |-> "provider", id |-> id, facet |-> f, kind |-> kind,
   dependencies |-> deps, get |-> get, value |-> Undefined]
FieldInstance(id, facets) == [type |-> "field", id |-> id, facets |-> facets]
ArrayExt(items) == [type |-> "array", items |-> items]
PrecExtension(e, prec) == [type |-> "prec", e |-> e, prec |-> prec]

Heap ==
  << StaticProvider(6, Tabsize, 2),                               \* 1  Tabsize(2)
     StaticProvider(7, Tabsize, 8),                               \* 2  Tabsize(8)
     StaticProvider(8, Mode, 2),                                  \* 3  Mode(2)
     StaticProvider(9, Mode, 8),                                  \* 4  Mode(8)
     StaticProvider(10, List, 7),                                 \* 5  List(7)
     ComputedProvider(11, List, Single, <<DepField(FieldA)>>, "succ"),  \* 6
     ComputedProvider(12, List, Multi, <<DepField(FieldB)>>, "pair"),   \* 7
     ComputedProvider(13, Some, Single, <<DepField(FieldA)>>, "field"),  \* 8
     ComputedProvider(14, List, Single, <<DepDoc>>, "halfdoc"),         \* 9
     ComputedProvider(15, List, Single, <<DepSel>>, "doc"),             \* 10
     ComputedProvider(16, List, Single, <<DepFacet(List)>>, "length"),  \* 11
     ComputedProvider(17, List, Single, <<DepFacet(Some)>>, "facet"),    \* 12
     ComputedProvider(18, Some, Single, <<DepFacet(List)>>, "length"),   \* 13
     ComputedProvider(19, List, Single, <<DepFacet(Tabsize)>>, "facet"),\* 14
     FieldInstance(FieldA, 20),          \* 15  A = StateField.define(..)
     FieldInstance(FieldA, 21),          \* 16  A.provide(List, v => v + 1)
     FieldInstance(FieldA, 22),          \* 17  A.provide(Some)
     FieldInstance(FieldB, 23),          \* 18  B = StateField.define(..)
     FieldInstance(FieldB, 24),          \* 19  B.provideN(List, pair, Extend)
     ArrayExt(<<>>),                     \* 20  A.facets
     ArrayExt(<<6>>),                    \* 21
     ArrayExt(<<8>>),                    \* 22
     ArrayExt(<<>>),                     \* 23  B.facets
     ArrayExt(<<25>>),                   \* 24
     PrecExtension(7, Extend),           \* 25  maybePrec(Extend, provider 12)
     PrecExtension(1, Fallback),         \* 26  Precedence.Fallback.set(Tabsize(2))
     PrecExtension(2, Override),         \* 27  Precedence.Override.set(Tabsize(8))
     ArrayExt(<<5, 26, 9>>),             \* 28  [List(7), Fallback(Tabsize(2)), ..]
     PrecExtension(28, Extend),          \* 29  Precedence.Extend.set(array 28)
     PrecExtension(29, Fallback),        \* 30  Precedence.Fallback.set(29)
     ArrayExt(<<26, 27, 5>>) >>          \* 31  [Fallback(..), Override(..), List(7)]

Refs == 1..Len(Heap)
\* The root extension is a fresh array; it is object 0.
RootRef == 0
Node(ext, r) == IF r = RootRef THEN ArrayExt(ext) ELSE Heap[r]

(***************************************************************************)
(* flatten                                                                 *)
(***************************************************************************)
\* Variant of inner without the seen set.
RECURSIVE innerUnseen(_, _, _, _), innerAllUnseen(_, _, _, _, _)
innerUnseen(ext, acc, r, prec) ==
  LET n == Node(ext, r)
  IN CASE n.type = "array" -> innerAllUnseen(ext, acc, n.items, 1, prec)
       [] n.type = "prec" -> innerUnseen(ext, acc, n.e, n.prec)
       [] OTHER ->
            LET a2 == [acc EXCEPT !.result[prec + 1] = Append(@, r)]
            IN IF n.type = "field" THEN innerUnseen(ext, a2, n.facets, prec)
               ELSE a2

innerAllUnseen(ext, acc, items, i, prec) ==
  IF i > Len(items) THEN acc
  ELSE innerAllUnseen(ext, innerUnseen(ext, acc, items[i], prec), items, i + 1, prec)

RECURSIVE inner(_, _, _, _), innerAll(_, _, _, _, _)
inner(ext, acc, r, prec) ==
  IF r \in acc.seen THEN acc
  ELSE LET a1 == [acc EXCEPT !.seen = @ \cup {r}]
           n == Node(ext, r)
       IN CASE n.type = "array" -> innerAll(ext, a1, n.items, 1, prec)
            [] n.type = "prec" -> inner(ext, a1, n.e, n.prec)
            [] OTHER ->
                 LET a2 == [a1 EXCEPT !.result[prec + 1] = Append(@, r)]
                 IN IF n.type = "field" THEN inner(ext, a2, n.facets, prec)
                    ELSE a2

innerAll(ext, acc, items, i, prec) ==
  IF i > Len(items) THEN acc
  ELSE innerAll(ext, inner(ext, acc, items[i], prec), items, i + 1, prec)

\* Variant of flatten that concatenates the buckets in ascending precedence.
flattenAscending(ext) ==
  LET acc == inner(ext, [result |-> << <<>>, <<>>, <<>>, <<>> >>, seen |-> {}],
                   RootRef, Default)
  IN acc.result[4] \o acc.result[3] \o acc.result[2] \o acc.result[1]

flatten(ext) ==
  LET acc == inner(ext, [result |-> << <<>>, <<>>, <<>>, <<>> >>, seen |-> {}],
                   RootRef, Default)
  IN acc.result[1] \o acc.result[2] \o acc.result[3] \o acc.result[4]

(***************************************************************************)
(* Addresses: (index << 1) | staticBit.  A missing entry of an address     *)
(* table reads as undefined, and undefined >> 1 = undefined & 1 = 0.       *)
(***************************************************************************)
Ids == 0..19

Shr1(addr) == IF addr = undefined THEN 0 ELSE addr \div 2
Bit(addr) == IF addr = undefined THEN 0 ELSE addr % 2
DynAddr(index) == index * 2
StaticAddr(index) == index * 2 + 1

\* a[i] of a JavaScript array held as a sequence: out of range is undefined.
At(a, i) == IF i + 1 \in DOMAIN a THEN a[i + 1] ELSE Undefined

(***************************************************************************)
(* SlotStatus                                                              *)
(***************************************************************************)
Uninitialized == 0
Changed == 1
Computed == 2
Computing == 4

\* status & SlotStatus.Changed and status & SlotStatus.Computed, as booleans
HasChanged(status) == status \in {Changed, Computed + Changed}
HasComputed(status) == status \in {Computed, Computed + Changed}

\* No snapshot (oldState absent, tr absent).
NoState == [exists |-> FALSE]
NoTr == [exists |-> FALSE]

getAddr(state, addr) ==
  IF Bit(addr) = 1 THEN At(state.config.staticValues, Shr1(addr))
  ELSE At(state.values, Shr1(addr))

(***************************************************************************)
(* The slot closures.  Each operator is the part of the method that runs   *)
(* at configuration time and returns the data its closure captures.        *)
(***************************************************************************)
\* StateField.slot(addresses)
slot(addresses, id) ==
  [kind |-> "field", id |-> id, idx |-> Shr1(addresses[id])]

RECURSIVE depAddrsOf(_, _, _)
depAddrsOf(addresses, deps, i) ==
  IF i > Len(deps) THEN <<>>
  ELSE LET dep == deps[i]
           rest == depAddrsOf(addresses, deps, i + 1)
       IN IF dep.t \in {"doc", "selection"} THEN rest
          ELSE IF Bit(addresses[dep.id]) = 0 THEN <<addresses[dep.id]>> \o rest
          ELSE rest

\* FacetProvider.dynamicSlot(addresses)
dynamicSlot(addresses, p) ==
  [kind |-> "provider", ref |-> p, idx |-> Shr1(addresses[Heap[p].id]),
   depDoc |-> \E i \in DOMAIN Heap[p].dependencies : Heap[p].dependencies[i].t = "doc",
   depSel |-> \E i \in DOMAIN Heap[p].dependencies :
                 Heap[p].dependencies[i].t = "selection",
   depAddrs |-> depAddrsOf(addresses, Heap[p].dependencies, 1)]

\* dynamicFacetSlot(addresses, facet, providers)
dynamicFacetSlot(addresses, facet, providers) ==
  LET providerAddrs == [i \in DOMAIN providers |-> addresses[Heap[providers[i]].id]]
  IN [kind |-> "facet", facet |-> facet, idx |-> Shr1(addresses[facet]),
      providerAddrs |-> providerAddrs,
      providerTypes |-> [i \in DOMAIN providers |-> Heap[providers[i]].kind],
      dynamic |-> SelectSeq(providerAddrs, LAMBDA a : Bit(a) = 0)]

(***************************************************************************)
(* Configuration                                                           *)
(***************************************************************************)
\* new Configuration(dynamicSlots, address, staticValues)
Configuration(dynamicSlots, address, staticValues) ==
  [dynamicSlots |-> dynamicSlots, address |-> address,
   staticValues |-> staticValues,
   statusTemplate |-> [i \in 1..Len(staticValues) |-> Uninitialized]]

EmptyConfiguration == Configuration(<<>>, [id \in Ids |-> undefined], <<>>)

\* Configuration.staticFacet(facet)
staticFacet(config, facet) ==
  LET addr == config.address[facet]
  IN IF addr = undefined THEN default(facet)
     ELSE At(config.staticValues, Shr1(addr))

\* resolve, lines 266-269: one dynamic slot per field instance.
RECURSIVE resolveFields(_, _, _)
resolveFields(acc, fields, i) ==
  IF i > Len(fields) THEN acc
  ELSE resolveFields(
         [acc EXCEPT !.address[Heap[fields[i]].id] = DynAddr(Len(acc.dynamicSlots)),
                     !.dynamicSlots = Append(@, [kind |-> "field",
                                                 id |-> Heap[fields[i]].id])],
         fields, i + 1)

\* resolve, lines 282-290: the members of a group that is not all static.
RECURSIVE resolveProviders(_, _, _)
resolveProviders(acc, providers, i) ==
  IF i > Len(providers) THEN acc
  ELSE LET p == Heap[providers[i]]
       IN resolveProviders(
            IF p.kind = Static
            THEN [acc EXCEPT !.address[p.id] = StaticAddr(Len(acc.staticValues)),
                             !.staticValues = Append(@, p.value)]
            ELSE [acc EXCEPT !.address[p.id] = DynAddr(Len(acc.dynamicSlots)),
                             !.dynamicSlots = Append(@, [kind |-> "provider",
                                                         ref |-> providers[i]])],
            providers, i + 1)

\* Variant of resolveStatic that never reuses the previous value.
resolveStaticFresh(acc, facet, providers, oldState) ==
  LET value == combine(facet, [i \in DOMAIN providers |-> Heap[providers[i]].value.v[1]])
  IN [acc EXCEPT !.address[facet] = StaticAddr(Len(acc.staticValues)),
                 !.staticValues = Append(@, value)]

\* Variant of resolveStatic that hands the values to combine last to first.
resolveStaticReversed(acc, facet, providers, oldState) ==
  LET n == Len(providers)
      value == combine(facet, [i \in DOMAIN providers |->
                                 Heap[providers[n + 1 - i]].value.v[1]])
      oldAddr == IF oldState.exists THEN oldState.config.address[facet] ELSE undefined
      oldVal == getAddr(oldState, oldAddr)
      kept == IF oldAddr # undefined /\ compare(facet, value, oldVal)
              THEN oldVal ELSE value
  IN [acc EXCEPT !.address[facet] = StaticAddr(Len(acc.staticValues)),
                 !.staticValues = Append(@, kept)]

\* resolve, lines 272-280: a group of static providers.
resolveStatic(acc, facet, providers, oldState) ==
  LET value == combine(facet, [i \in DOMAIN providers |-> Heap[providers[i]].value.v[1]])
      oldAddr == IF oldState.exists THEN oldState.config.address[facet] ELSE undefined
      oldVal == getAddr(oldState, oldAddr)
      kept == IF oldAddr # undefined /\ compare(facet, value, oldVal)
              THEN oldVal ELSE value
  IN [acc EXCEPT !.address[facet] = StaticAddr(Len(acc.staticValues)),
                 !.staticValues = Append(@, kept)]

\* facet.compare(value, oldVal) at line 278 raises a TypeError (sameArray on
\* an unset old value).
resolveThrows(extension, oldState) ==
  LET flattened == flatten(extension)
  IN /\ oldState.exists
     /\ \E facet \in FacetIds :
          LET providers == SelectSeq(flattened, LAMBDA r :
                             Heap[r].type = "provider" /\ Heap[r].facet = facet)
              value == combine(facet,
                         [i \in DOMAIN providers |-> Heap[providers[i]].value.v[1]])
              oldAddr == oldState.config.address[facet]
          IN /\ providers # <<>>
             /\ \A i \in DOMAIN providers : Heap[providers[i]].kind = Static
             /\ oldAddr # undefined
             /\ CompareThrows(facet, value, getAddr(oldState, oldAddr))

\* resolve, lines 270-294: the facet groups, in ascending id order.
RECURSIVE resolveFacets(_, _, _, _)
resolveFacets(acc, flat, oldState, facet) ==
  IF facet \notin FacetIds THEN acc
  ELSE LET providers == SelectSeq(flat, LAMBDA r :
                          Heap[r].type = "provider" /\ Heap[r].facet = facet)
           a1 == IF providers = <<>> THEN acc
                 ELSE IF \A i \in DOMAIN providers : Heap[providers[i]].kind = Static
                 THEN resolveStatic(acc, facet, providers, oldState)
                 ELSE LET a2 == resolveProviders(acc, providers, 1)
                      IN [a2 EXCEPT !.address[facet] = DynAddr(Len(a2.dynamicSlots)),
                                    !.dynamicSlots = Append(@, [kind |-> "facet",
                                          facet |-> facet, providers |-> providers])]
       IN resolveFacets(a1, flat, oldState, facet + 1)

\* Configuration.resolve(extension, oldState)
resolve(extension, oldState) ==
  LET flattened == flatten(extension)
      fields == SelectSeq(flattened, LAMBDA r : Heap[r].type = "field")
      a0 == [address |-> [id \in Ids |-> undefined], staticValues |-> <<>>,
             dynamicSlots |-> <<>>]
      a1 == resolveFields(a0, fields, 1)
      a2 == resolveFacets(a1, flattened, oldState, 0)
      make(f) == CASE f.kind = "field" -> slot(a2.address, f.id)
                   [] f.kind = "provider" -> dynamicSlot(a2.address, f.ref)
                   [] OTHER -> dynamicFacetSlot(a2.address, f.facet, f.providers)
  IN Configuration([i \in DOMAIN a2.dynamicSlots |-> make(a2.dynamicSlots[i])],
                   a2.address, a2.staticValues)

(***************************************************************************)
(* Snapshots (EditorState) and transition descriptors (Transaction).       *)
(***************************************************************************)
Max(a, b) == IF a > b THEN a ELSE b

\* The arrays of a snapshot under construction: status is a copy of the
\* template (cells past its end read as undefined); values is a copy of
\* the start snapshot's array on a transition that keeps the Configuration
\* and a new array of unset cells otherwise.
NewState(config, tr, doc) ==
  [exists |-> TRUE, config |-> config, doc |-> doc, applying |-> tr,
   values |-> IF tr.exists /\ ~tr.reconfigured THEN tr.startState.values
              ELSE [i \in 1..Len(config.dynamicSlots) |-> Undefined],
   status |-> [i \in 1..Max(Len(config.statusTemplate), Len(config.dynamicSlots)) |->
                 IF i <= Len(config.statusTemplate) THEN config.statusTemplate[i]
                 ELSE undefined]]

Transaction(startState, docChanged, selectionSet, reconfigured) ==
  [exists |-> TRUE, startState |-> startState, docChanged |-> docChanged,
   selectionSet |-> selectionSet, reconfigured |-> reconfigured]

\* Invocations of user functions ("create", "update", "get", "combine", by
\* id) and of slot update functions ("slot", by index) during the
\* construction of one snapshot: a function from <<function, id>> to the
\* number of invocations.
NoCalls == [e \in {} |-> 0]
Count(c, what, id) == IF <<what, id>> \in DOMAIN c THEN c[<<what, id>>] ELSE 0

(***************************************************************************)
(* The slot update functions, as the frames of the ensureAddr recursion.   *)
(* A frame is the activation of dynamicSlots[idx]: pc and i tell which     *)
(* ensureAddr call it makes next.                                          *)
(***************************************************************************)
\* state.facet(f): the default when the facet has no address.
facetValue(state, f) ==
  IF state.config.address[f] = undefined THEN default(f)
  ELSE getAddr(state, state.config.address[f])

\* The addresses a provider's getter forces through state.field / state.facet.
getterReads(state, p) ==
  LET deps == SelectSeq(Heap[p].dependencies, LAMBDA d :
                /\ d.t \in {"field", "facet"}
                /\ state.config.address[d.id] # undefined
                /\ Bit(state.config.address[d.id]) = 0)
  IN [i \in DOMAIN deps |-> state.config.address[deps[i].id]]

\* The getter's result, its reads having been forced.
getter(state, p) ==
  LET g == Heap[p].get
      dep == Heap[p].dependencies[1]
  IN CASE g = "field" -> getAddr(state, state.config.address[dep.id])
       [] g = "succ" ->
            Scalar(Add(getAddr(state, state.config.address[dep.id]).v[1], 1))
       [] g = "pair" ->
            LET x == getAddr(state, state.config.address[dep.id])
            IN Arr(<<x.v[1], Add(x.v[1], 1)>>)
       [] g = "halfdoc" -> Scalar(state.doc \div 2)
       [] g = "doc" -> Scalar(state.doc)
       [] g = "length" -> Scalar(Len(facetValue(state, dep.id).v))
       [] OTHER -> facetValue(state, dep.id)

\* state.facet(f).length on an unset cell raises a TypeError.
getterThrows(state, p) ==
  /\ Heap[p].get = "length"
  /\ IsUndefined(facetValue(state, Heap[p].dependencies[1].id))

\* enterSlot with "selection" not fired by a document change.
enterSlotSelOnly(state, idx) ==
  LET s == state.config.dynamicSlots[idx + 1]
      tr == state.applying
      oldAddr == IF ~tr.exists THEN undefined
                 ELSE IF tr.reconfigured THEN tr.startState.config.address[s.facet]
                 ELSE DynAddr(s.idx)
  IN CASE s.kind = "field" -> [idx |-> idx, pc |-> "run", i |-> 1, changed |-> FALSE]
       [] s.kind = "provider" ->
            [idx |-> idx, i |-> 1, changed |-> FALSE,
             pc |-> IF ~tr.exists \/ tr.reconfigured THEN "get"
                    ELSE IF \/ s.depDoc /\ tr.docChanged
                            \/ s.depSel /\ tr.selectionSet
                    THEN "get" ELSE "deps"]
       [] OTHER -> [idx |-> idx, pc |-> "dyn", i |-> 1, changed |-> oldAddr = undefined]

\* The frame of a slot on entry (the code before its first ensureAddr call).
enterSlot(state, idx) ==
  LET s == state.config.dynamicSlots[idx + 1]
      tr == state.applying
      oldAddr == IF ~tr.exists THEN undefined
                 ELSE IF tr.reconfigured THEN tr.startState.config.address[s.facet]
                 ELSE DynAddr(s.idx)
  IN CASE s.kind = "field" -> [idx |-> idx, pc |-> "run", i |-> 1, changed |-> FALSE]
       [] s.kind = "provider" ->
            [idx |-> idx, i |-> 1, changed |-> FALSE,
             pc |-> IF ~tr.exists \/ tr.reconfigured THEN "get"
                    ELSE IF \/ s.depDoc /\ tr.docChanged
                            \/ s.depSel /\ (tr.docChanged \/ tr.selectionSet)
                    THEN "get" ELSE "deps"]
       [] OTHER -> [idx |-> idx, pc |-> "dyn", i |-> 1, changed |-> oldAddr = undefined]

\* callsOf with the combine slot reading its members without forcing them
\* (the loop of lines 125-127 dropped).
callsOfUnforced(state, fr) ==
  LET s == state.config.dynamicSlots[fr.idx + 1]
  IN CASE fr.pc = "deps" -> s.depAddrs
       [] fr.pc = "get" -> getterReads(state, s.ref)
       [] OTHER -> <<>>

\* The addresses a frame still has to force, in order.
callsOf(state, fr) ==
  LET s == state.config.dynamicSlots[fr.idx + 1]
  IN CASE fr.pc = "deps" -> s.depAddrs
       [] fr.pc = "get" -> getterReads(state, s.ref)
       [] fr.pc = "dyn" -> s.dynamic
       [] OTHER -> <<>>

hasCall(state, fr) == fr.i <= Len(callsOf(state, fr))
callAddr(state, fr) == callsOf(state, fr)[fr.i]

\* resume with the combine slot's test of line 126 dropped.
resumeDeaf(fr, status) ==
  CASE fr.pc = "deps" ->
         IF HasChanged(status) THEN [fr EXCEPT !.pc = "get", !.i = 1]
         ELSE [fr EXCEPT !.i = @ + 1]
    [] OTHER -> [fr EXCEPT !.i = @ + 1]

\* The frame after ensureAddr returned status to it.
resume(fr, status) ==
  CASE fr.pc = "deps" ->
         IF HasChanged(status) THEN [fr EXCEPT !.pc = "get", !.i = 1]
         ELSE [fr EXCEPT !.i = @ + 1]
    [] fr.pc = "dyn" -> [fr EXCEPT !.i = @ + 1, !.changed = @ \/ HasChanged(status)]
    [] OTHER -> [fr EXCEPT !.i = @ + 1]

Bump(c, what, id) ==
  [e \in DOMAIN c \cup {<<what, id>>} |-> Count(c, what, id) * (IF e = <<what, id>> THEN 1 ELSE 0)
                                         + (IF e = <<what, id>> THEN 1 ELSE c[e])]

\* What a slot function does after its last ensureAddr call:
\* [values, changed, calls, error].
Outcome(values, changed, c, error) ==
  [values |-> values, changed |-> changed, calls |-> c, error |-> error]

\* fieldSlot without the compareF test of line 200.
fieldSlotUncompared(state, s, c) ==
  LET tr == state.applying
      oldIdx == IF tr.reconfigured THEN Shr1(tr.startState.config.address[s.id])
                ELSE s.idx
      oldVal == At(tr.startState.values, oldIdx)
      value == updateF(s.id, oldVal, tr)
  IN IF ~tr.exists
     THEN Outcome([state.values EXCEPT ![s.idx + 1] = createF(s.id)], Changed,
                  Bump(c, "create", s.id), "none")
     ELSE Outcome([state.values EXCEPT ![s.idx + 1] = value], Changed,
                  Bump(c, "update", s.id), "none")

\* StateField.slot, the returned closure
fieldSlot(state, s, c) ==
  LET tr == state.applying
      oldIdx == IF tr.reconfigured THEN Shr1(tr.startState.config.address[s.id])
                ELSE s.idx
      oldVal == At(tr.startState.values, oldIdx)
      value == updateF(s.id, oldVal, tr)
  IN IF ~tr.exists
     THEN Outcome([state.values EXCEPT ![s.idx + 1] = createF(s.id)], Changed,
                  Bump(c, "create", s.id), "none")
     ELSE IF compareF(s.id, oldVal, value)
     THEN Outcome(state.values, 0, Bump(c, "update", s.id), "none")
     ELSE Outcome([state.values EXCEPT ![s.idx + 1] = value], Changed,
                  Bump(c, "update", s.id), "none")

\* providerSlot without the compare test of line 102.
providerSlotUncompared(state, s, fr, c) ==
  LET p == Heap[s.ref]
      newVal == getter(state, s.ref)
      c1 == Bump(c, "get", p.id)
  IN IF fr.pc = "deps" THEN Outcome(state.values, 0, c, "none")
     ELSE IF getterThrows(state, s.ref)
     THEN Outcome(state.values, 0, c1, "TypeError")
     ELSE Outcome([state.values EXCEPT ![s.idx + 1] = newVal], Changed, c1, "none")

\* FacetProvider.dynamicSlot, the returned closure
providerSlot(state, s, fr, c) ==
  LET tr == state.applying
      p == Heap[s.ref]
      newVal == getter(state, s.ref)
      c1 == Bump(c, "get", p.id)
  IN IF fr.pc = "deps" THEN Outcome(state.values, 0, c, "none")
     ELSE IF getterThrows(state, s.ref)
     THEN Outcome(state.values, 0, c1, "TypeError")
     ELSE IF ~tr.exists \/ tr.reconfigured
     THEN Outcome([state.values EXCEPT ![s.idx + 1] = newVal], Changed, c1, "none")
     ELSE IF compareInput(p.facet, newVal, At(tr.startState.values, s.idx))
     THEN Outcome(state.values, 0, c1, "none")
     ELSE Outcome([state.values EXCEPT ![s.idx + 1] = newVal], Changed, c1, "none")

\* Variant of gather that puts each member's contribution in front of the
\* earlier ones.
RECURSIVE gatherFront(_, _, _)
gatherFront(state, s, i) ==
  IF i > Len(s.providerAddrs) THEN <<>>
  ELSE LET value == getAddr(state, s.providerAddrs[i])
       IN gatherFront(state, s, i + 1)
          \o (IF s.providerTypes[i] = Multi THEN value.v ELSE <<value.v[1]>>)

\* dynamicFacetSlot, lines 129-134: the inputs, in group order.
RECURSIVE gather(_, _, _)
gather(state, s, i) ==
  IF i > Len(s.providerAddrs) THEN <<>>
  ELSE LET value == getAddr(state, s.providerAddrs[i])
       IN (IF s.providerTypes[i] = Multi THEN value.v ELSE <<value.v[1]>>)
          \o gather(state, s, i + 1)

\* for (let val of value) on an unset cell raises a TypeError.
gatherThrows(state, s) ==
  \E i \in DOMAIN s.providerAddrs :
    s.providerTypes[i] = Multi /\ IsUndefined(getAddr(state, s.providerAddrs[i]))

\* dynamicFacetSlot, the returned closure
facetSlot(state, s, fr, c) ==
  LET tr == state.applying
      oldAddr == IF ~tr.exists THEN undefined
                 ELSE IF tr.reconfigured THEN tr.startState.config.address[s.facet]
                 ELSE DynAddr(s.idx)
      newVal == combine(s.facet, gather(state, s, 1))
      oldVal == getAddr(tr.startState, oldAddr)
      c1 == Bump(c, "combine", s.facet)
  IN IF ~fr.changed THEN Outcome(state.values, 0, c, "none")
     ELSE IF gatherThrows(state, s) THEN Outcome(state.values, 0, c, "TypeError")
     ELSE IF oldAddr # undefined /\ CompareThrows(s.facet, newVal, oldVal)
     THEN Outcome(state.values, 0, c1, "TypeError")
     ELSE IF oldAddr # undefined /\ compare(s.facet, newVal, oldVal)
     THEN Outcome(state.values, 0, c1, "none")
     ELSE Outcome([state.values EXCEPT ![s.idx + 1] = newVal], Changed, c1, "none")

\* state.config.dynamicSlots[idx](state, state.applying), from the point
\* where its ensureAddr calls are done.
runSlot(state, fr, c) ==
  LET s == state.config.dynamicSlots[fr.idx + 1]
  IN CASE s.kind = "field" -> fieldSlot(state, s, c)
       [] s.kind = "provider" -> providerSlot(state, s, fr, c)
       [] OTHER -> facetSlot(state, s, fr, c)

(***************************************************************************)
(* State.                                                                  *)
(***************************************************************************)
VARIABLES
  ext,     \* the root extension array (its items) of the Configuration
  flat,    \* the result of flatten(ext), when flatten is run on its own
  state,   \* the snapshot under construction (state.applying.startState
           \* is the snapshot it is derived from)
  stack,   \* the ensureAddr activations, innermost last
  error,   \* the exception that ended the construction, or "none"
  calls,   \* the user functions invoked while building this snapshot
  reconfigs, \* reconfiguring transactions applied so far
  phase    \* position of the driver

vars == <<ext, flat, state, stack, error, calls, reconfigs, phase>>

SeqsUpTo(S, n) == UNION {[1..k -> S] : k \in 0..n}

\* The root extensions the state machine is run on.
Programs ==
  { <<1, 2>>, <<1>>, <<1, 27>>, <<3>>, <<4>>,
    <<16>>, <<17>>, <<19, 16>>, <<5, 9>>, <<10, 5>>,
    <<11>>, <<12, 13>>, <<13, 5>>, <<14>>, <<14, 1>>, <<18, 14>>,
    <<15, 16>> }

\* state.status[idx]
StatusAt(st, idx) == IF idx + 1 \in DOMAIN st.status THEN st.status[idx + 1] ELSE undefined

Complete(st) ==
  \A i \in DOMAIN st.config.dynamicSlots : HasComputed(StatusAt(st, i - 1))

Init ==
  /\ ext \in Programs
  /\ flat = <<>>
  /\ state = NewState(resolve(ext, NoState), NoTr, 0)
  /\ stack = <<>>
  /\ error = "none"
  /\ calls = NoCalls
  /\ reconfigs = 0
  /\ phase = "state"

(***************************************************************************)
(* ensureAddr(state, addr), one action per path through it.  The call is   *)
(* made by the innermost activation, or by a consumer of the snapshot      *)
(* when no slot is being evaluated.                                        *)
(***************************************************************************)
Top == stack[Len(stack)]
Pop == SubSeq(stack, 1, Len(stack) - 1)

\* The calls of ensureAddr(state, addr) that can come next: the one of the
\* innermost activation, or one by a consumer, on any address of the
\* Configuration.
Called ==
  IF phase # "state" \/ error # "none" THEN {}
  ELSE IF stack # <<>>
  THEN (IF hasCall(state, Top) THEN {callAddr(state, Top)} ELSE {})
  ELSE {DynAddr(i - 1) : i \in DOMAIN state.config.dynamicSlots}
       \cup {StaticAddr(i - 1) : i \in DOMAIN state.config.staticValues}

\* The stack once the innermost call returned status to its caller.
Returned(callers, status) ==
  IF callers = <<>> THEN callers
  ELSE [callers EXCEPT ![Len(callers)] = resume(@, status)]

\* ensureAddr without the test of line 329.
ensureAddrUnguarded(st, addr) ==
  IF Bit(addr) = 1 THEN "static"
  ELSE IF HasComputed(StatusAt(st, Shr1(addr))) THEN "computed"
  ELSE "compute"

\* ensureAddr without the test of line 330.
ensureAddrUncached(st, addr) ==
  IF Bit(addr) = 1 THEN "static"
  ELSE IF StatusAt(st, Shr1(addr)) = Computing THEN "cyclic"
  ELSE "compute"

\* The branch ensureAddr(state, addr) takes, lines 326-331.
ensureAddr(st, addr) ==
  IF Bit(addr) = 1 THEN "static"
  ELSE IF StatusAt(st, Shr1(addr)) = Computing THEN "cyclic"
  ELSE IF HasComputed(StatusAt(st, Shr1(addr))) THEN "computed"
  ELSE "compute"

\* line 326
EnsureStatic ==
  \E addr \in Called :
  /\ ensureAddr(state, addr) = "static"
  /\ stack' = Returned(stack, Computed)
  /\ UNCHANGED <<ext, flat, state, error, calls, reconfigs, phase>>

\* line 329
EnsureCyclic ==
  \E addr \in Called :
  /\ ensureAddr(state, addr) = "cyclic"
  /\ error' = "Cyclic dependency between fields and/or facets"
  /\ stack' = <<>>
  /\ UNCHANGED <<ext, flat, state, calls, reconfigs, phase>>

\* line 330
EnsureComputed ==
  \E addr \in Called :
  /\ ensureAddr(state, addr) = "computed"
  /\ stack' = Returned(stack, StatusAt(state, Shr1(addr)))
  /\ UNCHANGED <<ext, flat, state, error, calls, reconfigs, phase>>

\* lines 331-332, up to the slot function's first ensureAddr call
EnsureCompute ==
  \E addr \in Called :
  /\ ensureAddr(state, addr) = "compute"
  /\ state' = [state EXCEPT !.status[Shr1(addr) + 1] = Computing]
  /\ stack' = Append(stack, enterSlot(state, Shr1(addr)))
  /\ calls' = Bump(calls, "slot", Shr1(addr))
  /\ UNCHANGED <<ext, flat, error, reconfigs, phase>>

\* SlotReturn with the slot function's writes also landing in the start
\* snapshot's value array.
SlotReturnShared ==
  /\ phase = "state"
  /\ error = "none"
  /\ stack # <<>>
  /\ ~hasCall(state, Top)
  /\ LET out == runSlot(state, Top, calls)
     IN /\ calls' = out.calls
        /\ error' = out.error
        /\ IF out.error # "none"
           THEN /\ stack' = <<>>
                /\ UNCHANGED state
           ELSE /\ state' =
                     IF state.applying.exists
                     THEN [state EXCEPT !.values = out.values,
                                        !.status[Top.idx + 1] = Computed + out.changed,
                                        !.applying.startState.values = out.values]
                     ELSE [state EXCEPT !.values = out.values,
                                        !.status[Top.idx + 1] = Computed + out.changed]
                /\ stack' = Returned(Pop, Computed + out.changed)
  /\ UNCHANGED <<ext, flat, reconfigs, phase>>

\* lines 332-333: the slot function finishes and ensureAddr returns
SlotReturn ==
  /\ phase = "state"
  /\ error = "none"
  /\ stack # <<>>
  /\ ~hasCall(state, Top)
  /\ LET out == runSlot(state, Top, calls)
     IN /\ calls' = out.calls
        /\ error' = out.error
        /\ IF out.error # "none"
           THEN /\ stack' = <<>>
                /\ UNCHANGED state
           ELSE /\ state' = [state EXCEPT !.values = out.values,
                                          !.status[Top.idx + 1] = Computed + out.changed]
                /\ stack' = Returned(Pop, Computed + out.changed)
  /\ UNCHANGED <<ext, flat, reconfigs, phase>>

(***************************************************************************)
(* Transitions.  A completed snapshot is the start state of the next one.  *)
(***************************************************************************)
Finished ==
  /\ phase = "state"
  /\ error = "none"
  /\ stack = <<>>
  /\ Complete(state)

NextDoc(docChanged) == IF docChanged THEN (state.doc + 1) % (MaxVal + 1) ELSE state.doc

\* A transaction that keeps the Configuration.
Apply(docChanged, selectionSet) ==
  /\ Finished
  /\ state' = NewState(state.config,
                       Transaction([state EXCEPT !.applying = NoTr],
                                   docChanged, selectionSet, FALSE),
                       NextDoc(docChanged))
  /\ calls' = NoCalls
  /\ UNCHANGED <<ext, flat, stack, error, reconfigs, phase>>

\* A reconfiguring transaction.  It is drawn without a document or selection
\* change, so that update sees the flags it sees on an Apply that changes
\* nothing.
Reconfigure(extension) ==
  /\ Finished
  /\ reconfigs < MaxReconf
  /\ reconfigs' = reconfigs + 1
  /\ LET startState == [state EXCEPT !.applying = NoTr]
     IN IF resolveThrows(extension, startState)
        THEN /\ error' = "TypeError in resolve"
             /\ UNCHANGED <<ext, state, calls>>
        ELSE /\ state' = NewState(resolve(extension, startState),
                                  Transaction(startState, FALSE, FALSE, TRUE),
                                  state.doc)
             /\ ext' = extension
             /\ calls' = NoCalls
             /\ UNCHANGED error
  /\ UNCHANGED <<flat, stack, phase>>

Next ==
  \/ EnsureStatic
  \/ EnsureCyclic
  \/ EnsureComputed
  \/ EnsureCompute
  \/ SlotReturn
  \/ \E docChanged, selectionSet \in BOOLEAN : Apply(docChanged, selectionSet)
  \/ \E extension \in Programs : Reconfigure(extension)

Spec == Init /\ [][Next]_vars

(***************************************************************************)
(* flatten on its own, over every root array of at most MaxLen objects.    *)
(***************************************************************************)
InitFlatten ==
  /\ ext \in SeqsUpTo(Refs, MaxLen)
  /\ flat = <<>>
  /\ state = NoState
  /\ stack = <<>>
  /\ error = "none"
  /\ calls = NoCalls
  /\ reconfigs = 0
  /\ phase = "extension"

Flatten ==
  /\ phase = "extension"
  /\ flat' = flatten(ext)
  /\ phase' = "flattened"
  /\ UNCHANGED <<ext, state, stack, error, calls, reconfigs>>

NextFlatten == Flatten

SpecFlatten == InitFlatten /\ [][NextFlatten]_vars

(***************************************************************************)
(* Properties.                                                             *)
(***************************************************************************)
CyclicError == "Cyclic dependency between fields and/or facets"

Slots(st) == {i - 1 : i \in DOMAIN st.config.dynamicSlots}
SlotAt(st, idx) == st.config.dynamicSlots[idx + 1]

\* The slots whose evaluation a slot's update function forces.
Forces(st, idx) ==
  LET s == SlotAt(st, idx)
      addrs == CASE s.kind = "provider" -> getterReads(st, s.ref)
                 [] s.kind = "facet" -> s.dynamic
                 [] OTHER -> <<>>
  IN {Shr1(addrs[i]) : i \in DOMAIN addrs}

RECURSIVE ReachableFrom(_, _, _)
ReachableFrom(st, frontier, seen) ==
  IF frontier \subseteq seen THEN seen
  ELSE ReachableFrom(st, UNION {Forces(st, i) : i \in frontier}, seen \cup frontier)

\* The slot depends, directly or transitively, on itself.
OnCycle(st, idx) == idx \in ReachableFrom(st, Forces(st, idx), {})

NoReentry ==
  /\ \A i, j \in DOMAIN stack : i # j => stack[i].idx # stack[j].idx
  /\ \A i \in DOMAIN stack : StatusAt(state, stack[i].idx) = Computing

CycleNeverComputed ==
  state.exists =>
    \A idx \in Slots(state) : OnCycle(state, idx) => ~HasComputed(StatusAt(state, idx))

ReentersComputing ==
  /\ error = "none"
  /\ stack # <<>>
  /\ hasCall(state, Top)
  /\ Bit(callAddr(state, Top)) = 0
  /\ StatusAt(state, Shr1(callAddr(state, Top))) = Computing

\* C1: a call of ensureAddr that re-enters a slot whose status is Computing
\* raises the cyclic-dependency error in that very step and changes nothing
\* else; no slot is ever active twice on the call stack, so the recursion is
\* bounded; and a slot that depends on itself never becomes Computed.
C1_CycleRaised ==
  [][ /\ ReentersComputing => (error' = CyclicError /\ stack' = <<>> /\ state' = state)
      /\ NoReentry'
      /\ CycleNeverComputed' ]_vars

\* C1 witness: the error was raised for a provider that depends on its own
\* facet through another facet (List <- Some <- List).
C1_Witness ==
  /\ error = CyclicError
  /\ ext = <<12, 13>>
  /\ \E idx \in Slots(state) : OnCycle(state, idx) /\ StatusAt(state, idx) = Computing

(***************************************************************************)
(* A field feeding a facet through provide: the field's slot, the slot of  *)
(* the derived provider and the combine slot of the provider's facet.      *)
(***************************************************************************)
Building == state.exists /\ state.applying.exists
NonReconfiguring == Building /\ ~state.applying.reconfigured
Reconfiguring == Building /\ state.applying.reconfigured
StartState == state.applying.startState

FieldSlots == {i \in Slots(state) : SlotAt(state, i).kind = "field"}
FacetSlots == {i \in Slots(state) : SlotAt(state, i).kind = "facet"}
ProviderSlots == {i \in Slots(state) : SlotAt(state, i).kind = "provider"}

Feeds(f, p, c) ==
  /\ f \in FieldSlots /\ p \in ProviderSlots /\ c \in FacetSlots
  /\ Heap[SlotAt(state, p).ref].dependencies = <<DepField(SlotAt(state, f).id)>>
  /\ SlotAt(state, c).facet = Heap[SlotAt(state, p).ref].facet

\* The field's value in the start snapshot and what update makes of it.
OldOf(f) == At(StartState.values, SlotAt(state, f).idx)
UpdatedOf(f) == updateF(SlotAt(state, f).id, OldOf(f), state.applying)
FieldEqual(f) == compareF(SlotAt(state, f).id, OldOf(f), UpdatedOf(f))

IsComputed(i) == HasComputed(StatusAt(state, i))
IsChanged(i) == HasChanged(StatusAt(state, i))

\* The slots of the other dynamic members of the group of combine slot c.
OtherMembers(c, p) ==
  {Shr1(SlotAt(state, c).dynamic[k]) : k \in DOMAIN SlotAt(state, c).dynamic} \ {p}

\* C2: on a transition that keeps the Configuration, when the field's
\* update returns a value its compare treats as equal to the old one, the
\* field slot and the provider slot report unchanged and the projection is
\* not called; if no other member of the group changed, the combine slot
\* reports unchanged too and combine is not called.
C2_ChangeSuppressed ==
  NonReconfiguring =>
    \A f, p, c \in Slots(state) :
      (Feeds(f, p, c) /\ FieldEqual(f)) =>
        /\ ~IsChanged(f)
        /\ ~IsChanged(p)
        /\ Count(calls, "get", Heap[SlotAt(state, p).ref].id) = 0
        /\ (\A m \in OtherMembers(c, p) : ~IsChanged(m)) =>
             (~IsChanged(c) /\ Count(calls, "combine", SlotAt(state, c).facet) = 0)

\* C2 witness: update returned a different value that compare treats as
\* equal, and the three slots were evaluated and report unchanged.
C2_Witness ==
  /\ NonReconfiguring
  /\ \E f, p, c \in Slots(state) :
       /\ Feeds(f, p, c) /\ FieldEqual(f)
       /\ OldOf(f) # UpdatedOf(f)
       /\ StatusAt(state, f) = Computed
       /\ StatusAt(state, p) = Computed
       /\ StatusAt(state, c) = Computed

\* The contribution the provider of slot p makes now, and the combined value.
ContributionOf(p) == getter(state, SlotAt(state, p).ref)
CombinedOf(c) == combine(SlotAt(state, c).facet, gather(state, SlotAt(state, c), 1))

Distinguished(p, c) ==
  /\ ~compareInput(SlotAt(state, c).facet, ContributionOf(p),
                   At(StartState.values, SlotAt(state, p).idx))
  /\ ~compare(SlotAt(state, c).facet, CombinedOf(c),
              At(StartState.values, SlotAt(state, c).idx))

\* C3: on a transition that keeps the Configuration, when update returns a
\* value that compare tells apart from the old one, the field slot reports
\* Changed and holds the updated value; when also compareInput and the
\* facet's compare tell the new contribution and the new combined value
\* apart from the old ones, the combine slot reports Changed and holds the
\* newly combined value.
C3_ChangePropagated ==
  NonReconfiguring =>
    \A f \in FieldSlots :
      ~FieldEqual(f) =>
        /\ IsComputed(f) =>
             /\ StatusAt(state, f) = Computed + Changed
             /\ At(state.values, SlotAt(state, f).idx) = UpdatedOf(f)
        /\ \A p, c \in Slots(state) :
             (Feeds(f, p, c) /\ IsComputed(c) /\ Distinguished(p, c)) =>
               /\ StatusAt(state, c) = Computed + Changed
               /\ At(state.values, SlotAt(state, c).idx) = CombinedOf(c)

\* C3 witness: the field changed and the change reached the combine slot.
C3_Witness ==
  /\ NonReconfiguring
  /\ \E f, p, c \in Slots(state) :
       /\ Feeds(f, p, c) /\ ~FieldEqual(f)
       /\ Distinguished(p, c)
       /\ StatusAt(state, f) = Computed + Changed
       /\ StatusAt(state, c) = Computed + Changed

\* The entity (field or facet id) a field or combine slot belongs to.
EntityOf(i) ==
  IF SlotAt(state, i).kind = "field" THEN SlotAt(state, i).id ELSE SlotAt(state, i).facet

\* The field of slot f had no address in the start snapshot's Configuration.
NewlyIntroduced(f) == StartState.config.address[SlotAt(state, f).id] = undefined

\* C4: on a reconfiguring transition a field that had no address in the old
\* Configuration is initialized by create and never by update, its slot
\* stores the created value and reports Changed, and no error is raised.
C4_NewFieldCreated ==
  Reconfiguring =>
    \A f \in FieldSlots :
      NewlyIntroduced(f) =>
        /\ Count(calls, "update", SlotAt(state, f).id) = 0
        /\ IsComputed(f) =>
             /\ Count(calls, "create", SlotAt(state, f).id) > 0
             /\ StatusAt(state, f) = Computed + Changed
             /\ At(state.values, SlotAt(state, f).idx) = createF(SlotAt(state, f).id)

\* The value of the slot's entity in the start snapshot.
OldValueOf(i) == getAddr(StartState, StartState.config.address[EntityOf(i)])

SlotCompare(i, a, b) ==
  IF SlotAt(state, i).kind = "field" THEN compareF(SlotAt(state, i).id, a, b)
  ELSE compare(SlotAt(state, i).facet, a, b)

Moved(i) ==
  /\ StartState.config.address[EntityOf(i)] # undefined
  /\ StartState.config.address[EntityOf(i)] # state.config.address[EntityOf(i)]

\* C5: when a field slot or a combine slot has reported unchanged, getAddr
\* on the snapshot under construction returns, at the slot's address, a set
\* value that the slot's compare treats as equal to the old value; on
\* transitions that keep the Configuration and on reconfiguring transitions
\* that moved the entity to another address.
C5_UnchangedReadable ==
  Building =>
    \A i \in FieldSlots \cup FacetSlots :
      (/\ StatusAt(state, i) = Computed
       /\ ~state.applying.reconfigured \/ Moved(i)) =>
        /\ ~IsUndefined(getAddr(state, DynAddr(SlotAt(state, i).idx)))
        /\ SlotCompare(i, OldValueOf(i), getAddr(state, DynAddr(SlotAt(state, i).idx)))

(***************************************************************************)
(* Static facets of the resolved Configuration.                            *)
(***************************************************************************)
\* The providers of a facet among the leaves of the root, in flatten order.
GroupOf(facet) ==
  SelectSeq(flatten(ext), LAMBDA r : Heap[r].type = "provider" /\ Heap[r].facet = facet)

AllStatic(facet) ==
  /\ GroupOf(facet) # <<>>
  /\ \A i \in DOMAIN GroupOf(facet) : Heap[GroupOf(facet)[i]].kind = Static

\* combine applied to the values of the facet's providers, in flatten order.
NewlyCombined(facet) ==
  combine(facet, [i \in DOMAIN GroupOf(facet) |-> Heap[GroupOf(facet)[i]].value.v[1]])

\* The Configuration of state was resolved by this run's last step with a
\* previous snapshot (a reconfiguration) or without one (the first state).
Resolved == state.exists /\ (state.applying.exists => state.applying.reconfigured)
HasPrevious(facet) ==
  /\ state.applying.exists
  /\ StartState.config.address[facet] # undefined
PreviousOf(facet) == getAddr(StartState, StartState.config.address[facet])

StoredStatic(facet) == At(state.config.staticValues, Shr1(state.config.address[facet]))

\* C6: in a Configuration resolved with a previous snapshot, the value
\* stored for a facet whose providers are all Static is the previous value
\* itself when the previous Configuration had an address for the facet and
\* compare(newly combined, previous) holds, and the newly combined value
\* otherwise.
C6_StaticContinuity ==
  Resolved =>
    \A facet \in FacetIds :
      AllStatic(facet) =>
        /\ Bit(state.config.address[facet]) = 1
        /\ StoredStatic(facet) =
             IF HasPrevious(facet) /\ compare(facet, NewlyCombined(facet), PreviousOf(facet))
             THEN PreviousOf(facet) ELSE NewlyCombined(facet)

\* C6 witness: Mode 2 reconfigured to [Mode(8)] keeps the previous 2, which
\* compare (by parity) treats as equal to the newly combined 8.
C6_Witness ==
  /\ Reconfiguring
  /\ AllStatic(Mode) /\ HasPrevious(Mode)
  /\ NewlyCombined(Mode) = Scalar(8)
  /\ StoredStatic(Mode) = Scalar(2)

\* C6 witness of the other branch: Tabsize 8 reconfigured to [Tabsize(2)].
C6_WitnessReplaced ==
  /\ Reconfiguring
  /\ ext = <<1>>
  /\ PreviousOf(Tabsize) = Scalar(8)
  /\ StoredStatic(Tabsize) = Scalar(2)

\* C7 as stated: staticFacet of a facet whose providers are all Static is
\* combine applied to their values in flatten order, and the default for a
\* facet without providers.
C7_StaticCombineAsStated ==
  state.exists =>
    \A facet \in FacetIds :
      /\ AllStatic(facet) => staticFacet(state.config, facet) = NewlyCombined(facet)
      /\ GroupOf(facet) = <<>> => staticFacet(state.config, facet) = default(facet)

\* C7, amended: staticFacet of a facet whose providers are all Static is
\* combine applied to their values in flatten order when the Configuration
\* was resolved without a previous snapshot, and in every case a value the
\* facet's compare treats as equal to that; a facet without providers
\* gives its default.
C7_StaticCombine ==
  state.exists =>
    \A facet \in FacetIds :
      /\ AllStatic(facet) =>
           /\ compare(facet, NewlyCombined(facet), staticFacet(state.config, facet))
           /\ (~state.applying.exists /\ reconfigs = 0) =>
                staticFacet(state.config, facet) = NewlyCombined(facet)
      /\ GroupOf(facet) = <<>> => staticFacet(state.config, facet) = default(facet)

\* C7 witness: [Tabsize(2), Tabsize(8)] at equal precedence resolves to 8.
C7_Witness ==
  /\ state.exists /\ ~state.applying.exists /\ reconfigs = 0
  /\ ext = <<1, 2>>
  /\ staticFacet(state.config, Tabsize) = Scalar(8)
  /\ staticFacet(state.config, Mode) = default(Mode)

(***************************************************************************)
(* flatten against the extension tree read as a tree.                      *)
(***************************************************************************)
\* Every visit of a leaf in a depth-first, left-to-right walk of the tree
\* below r, sequences expanded inline, with the tier of the innermost
\* enclosing precedence tag: a sequence of <<leaf, tier>>.
RECURSIVE Walk(_, _, _), WalkAll(_, _, _, _)
Walk(e, r, tier) ==
  LET n == Node(e, r)
  IN CASE n.type = "array" -> WalkAll(e, n.items, 1, tier)
       [] n.type = "prec" -> Walk(e, n.e, n.prec)
       [] n.type = "field" -> <<<<r, tier>>>> \o Walk(e, n.facets, tier)
       [] OTHER -> <<<<r, tier>>>>

WalkAll(e, items, i, tier) ==
  IF i > Len(items) THEN <<>>
  ELSE Walk(e, items[i], tier) \o WalkAll(e, items, i + 1, tier)

\* The first visit of each leaf.
RECURSIVE FirstVisits(_, _, _)
FirstVisits(w, i, seen) ==
  IF i > Len(w) THEN <<>>
  ELSE IF w[i][1] \in seen THEN FirstVisits(w, i + 1, seen)
  ELSE <<w[i]>> \o FirstVisits(w, i + 1, seen \cup {w[i][1]})

Leaves(w) == [i \in DOMAIN w |-> w[i][1]]
TierOf(w, tier) == Leaves(SelectSeq(w, LAMBDA v : v[2] = tier))
ByTier(e) ==
  LET w == FirstVisits(Walk(e, RootRef, Default), 1, {})
  IN TierOf(w, Override) \o TierOf(w, Extend) \o TierOf(w, Default) \o TierOf(w, Fallback)

Flattened == phase = "flattened"

\* C8: the flattened sequence is the Override, Extend, Default and Fallback
\* tiers in that order; a leaf is in the tier of the innermost precedence
\* tag around its first visit (Default when untagged), and a tier keeps the
\* depth-first pre-order of the tree.
C8_TierThenPreorder == Flattened => flat = ByTier(ext)

\* C8 witness: [Fallback(Tabsize(2)), Override(Tabsize(8)), List(7)]
\* flattens to [Tabsize(8), List(7), Tabsize(2)].
C8_Witness == Flattened /\ ext = <<31>> /\ flat = <<2, 5, 1>>

\* C8 witness of the innermost tag: Fallback(Extend([List(7),
\* Fallback(Tabsize(2)), ..])) puts List(7) in the Extend tier, before the
\* Default leaf that precedes it in the source.
C8_WitnessInnermost == Flattened /\ ext = <<1, 30>> /\ flat[1] = 5 /\ flat[3] = 1

\* The nodes of the tree below r, r included.
RECURSIVE Below(_)
Below(r) ==
  LET n == Heap[r]
  IN {r} \cup CASE n.type = "array" -> UNION {Below(n.items[i]) : i \in DOMAIN n.items}
                [] n.type = "prec" -> Below(n.e)
                [] n.type = "field" -> Below(n.facets)
                [] OTHER -> {}

Without(s, i) == [k \in 1..(Len(s) - 1) |-> IF k < i THEN s[k] ELSE s[k + 1]]

\* The item at i of the root occurs at or below an earlier item.
Repeated(e, i) == \E j \in 1..(i - 1) : e[i] \in Below(e[j])

\* C9: no instance appears twice in the flattened sequence, and an item
\* of the root that already occurs earlier in the tree contributes nothing:
\* the tree flattens as it does without that item.
C9_InstanceOnce ==
  Flattened =>
    /\ \A i, j \in DOMAIN flat : flat[i] = flat[j] => i = j
    /\ \A i \in DOMAIN ext : Repeated(ext, i) => flat = flatten(Without(ext, i))

\* C9 witness: a field instance with a provided facet composed twice
\* flattens to the field and its provider, once each.
C9_Witness == Flattened /\ ext = <<16, 16>> /\ flat = <<16, 6>>

\* C9 witness: an instance first visited inside a sequence and composed
\* again at the root.
C9_WitnessNested == Flattened /\ ext = <<28, 5>> /\ flat = flatten(<<28>>) /\ Len(flat) = 3

(***************************************************************************)
(* The inputs of combine.                                                  *)
(***************************************************************************)
\* What the member r of a group contributes: its one value when Static or
\* Single, the elements of the sequence it produced when Multi.
MemberInputs(r) ==
  LET value == getAddr(state, state.config.address[Heap[r].id])
  IN IF Heap[r].kind = Multi THEN value.v ELSE <<value.v[1]>>

RECURSIVE GroupInputs(_, _)
GroupInputs(group, i) ==
  IF i > Len(group) THEN <<>>
  ELSE MemberInputs(group[i]) \o GroupInputs(group, i + 1)

\* The combine slot c has recomputed and stored its result.
Recombined(c) == c \in FacetSlots /\ IsComputed(c) /\ IsChanged(c)

\* C10: the value a combine slot stores when it recomputes is combine of
\* the list built from the members of the group in flatten order, one
\* element for a Static or Single member and the elements of the produced
\* sequence, in order, for a Multi member.
C10_GatherOrder ==
  state.exists =>
    \A c \in Slots(state) :
      Recombined(c) =>
        getAddr(state, DynAddr(c)) =
          combine(SlotAt(state, c).facet, GroupInputs(GroupOf(SlotAt(state, c).facet), 1))

\* C10 witness: the group [Multi yielding [1, 2], Single yielding 3] of the
\* list facet combines to [1, 2, 3].
C10_Witness ==
  /\ state.exists /\ ext = <<19, 16>>
  /\ \E c \in Slots(state) :
       /\ Recombined(c) /\ SlotAt(state, c).facet = List
       /\ Heap[GroupOf(List)[1]].kind = Multi /\ Heap[GroupOf(List)[2]].kind = Single
       /\ MemberInputs(GroupOf(List)[1]) = <<1, 2>>
       /\ MemberInputs(GroupOf(List)[2]) = <<3>>
       /\ getAddr(state, DynAddr(c)) = Arr(<<1, 2, 3>>)

(***************************************************************************)
(* Memoization of ensureAddr.                                              *)
(***************************************************************************)
\* A step of the evaluation of the snapshot under construction.
Evaluating == EnsureStatic \/ EnsureCyclic \/ EnsureComputed \/ EnsureCompute \/ SlotReturn

\* A cell no slot function has been started for.  A cell past the end of
\* the status array reads as undefined, which ensureAddr's tests treat as
\* Uninitialized.
Unset(status) == status \in {Uninitialized, undefined}

StatusMove(idx) ==
  LET a == StatusAt(state, idx)
      b == StatusAt(state', idx)
  IN \/ a = b
     \/ Unset(a) /\ b = Computing
     \/ a = Computing /\ b \in {Computed, Computed + Changed}

\* The innermost activation is about to call ensureAddr on a computed slot.
CachedCall ==
  /\ phase = "state" /\ error = "none" /\ stack # <<>>
  /\ hasCall(state, Top)
  /\ Bit(callAddr(state, Top)) = 0
  /\ HasComputed(StatusAt(state, Shr1(callAddr(state, Top))))

\* C12: while a snapshot is evaluated every status cell only moves from
\* unset to Computing and from Computing to Computed (with or without
\* Changed), every slot function is invoked at most once, and a call of
\* ensureAddr on a computed slot hands its caller the stored status and
\* leaves values, status and the invocation counts as they are.
C12_Memoized ==
  [][Evaluating =>
       /\ \A idx \in Slots(state) :
            /\ StatusMove(idx)
            /\ Count(calls', "slot", idx) <= 1
       /\ CachedCall =>
            /\ state' = state /\ calls' = calls /\ error' = error
            /\ Len(stack') = Len(stack)
            /\ stack'[Len(stack)] =
                 resume(Top, StatusAt(state, Shr1(callAddr(state, Top))))]_vars

\* C12 witness: a combine slot calls ensureAddr on a member slot that a
\* consumer has computed before.
C12_Witness ==
  /\ CachedCall
  /\ SlotAt(state, Top.idx).kind = "facet"
  /\ Count(calls, "slot", Shr1(callAddr(state, Top))) = 1

(***************************************************************************)
(* Providers on a transition that keeps the Configuration.                 *)
(***************************************************************************)
ProviderOf(p) == Heap[SlotAt(state, p).ref]

\* The projection of the provider of slot p was run for this snapshot.
Reran(p) == Count(calls, "get", ProviderOf(p).id) >= 1

\* compareInput treats what the projection returns as equal to the value
\* at the provider's address in the start snapshot.
InputEqual(p) ==
  compareInput(ProviderOf(p).facet, ContributionOf(p),
               At(StartState.values, SlotAt(state, p).idx))

CombineSlotsOf(p) ==
  {c \in FacetSlots : SlotAt(state, c).facet = ProviderOf(p).facet /\ IsComputed(c)}

\* C13: on a transition that keeps the Configuration, a provider whose
\* projection was re-run and returned a value compareInput treats as equal
\* to the one at its address in the start snapshot reports unchanged and
\* its cell keeps the start snapshot's value; if no other member of the
\* group changed, the combine slot reports unchanged and combine is not
\* called.
C13_InputSuppressed ==
  NonReconfiguring =>
    \A p \in ProviderSlots :
      (IsComputed(p) /\ Reran(p) /\ InputEqual(p)) =>
        /\ StatusAt(state, p) = Computed
        /\ At(state.values, SlotAt(state, p).idx) = At(StartState.values, SlotAt(state, p).idx)
        /\ \A c \in CombineSlotsOf(p) :
             (\A m \in OtherMembers(c, p) : ~IsChanged(m)) =>
               /\ StatusAt(state, c) = Computed
               /\ Count(calls, "combine", SlotAt(state, c).facet) = 0

\* C13 witness: the document changed from 0 to 1, the provider of
\* floor(doc / 2) was re-run and returned 0 again, and the combine slot of
\* its facet was evaluated.
C13_Witness ==
  /\ NonReconfiguring /\ state.applying.docChanged
  /\ \E p \in ProviderSlots :
       /\ IsComputed(p) /\ Reran(p) /\ InputEqual(p)
       /\ ProviderOf(p).get = "halfdoc"
       /\ CombineSlotsOf(p) # {}

\* The provider of slot p declares exactly the dependencies deps.
Declares(p, deps) == ProviderOf(p).dependencies = deps

\* The provider slot p was evaluated without running its projection.
Skipped(p) ==
  /\ StatusAt(state, p) = Computed
  /\ Count(calls, "get", ProviderOf(p).id) = 0

\* C14: on a transition that keeps the Configuration, a provider that
\* declares only "selection" runs its projection when the document or the
\* selection changed; one that declares only "doc" runs it when the
\* document changed and is skipped, reporting unchanged, when only the
\* selection changed.
C14_SymbolicDependencies ==
  NonReconfiguring =>
    \A p \in ProviderSlots :
      IsComputed(p) =>
        /\ (Declares(p, <<DepSel>>)
              /\ (state.applying.docChanged \/ state.applying.selectionSet))
             => Count(calls, "get", ProviderOf(p).id) = 1
        /\ (Declares(p, <<DepDoc>>) /\ state.applying.docChanged)
             => Count(calls, "get", ProviderOf(p).id) = 1
        /\ (Declares(p, <<DepDoc>>) /\ ~state.applying.docChanged
              /\ state.applying.selectionSet)
             => Skipped(p)

\* C14 witness: a document change without a selection change re-ran the
\* provider that declares only "selection".
C14_Witness ==
  /\ NonReconfiguring
  /\ state.applying.docChanged /\ ~state.applying.selectionSet
  /\ \E p \in ProviderSlots :
       Declares(p, <<DepSel>>) /\ IsComputed(p) /\ Reran(p)

\* C14 witness: a selection change alone skipped the provider that declares
\* only "doc".
C14_WitnessSkipped ==
  /\ NonReconfiguring
  /\ ~state.applying.docChanged /\ state.applying.selectionSet
  /\ \E p \in ProviderSlots : Declares(p, <<DepDoc>>) /\ Skipped(p)

(***************************************************************************)
(* Termination of the construction of a snapshot.                          *)
(***************************************************************************)
NSlots == Len(state.config.dynamicSlots)

\* The ensureAddr calls a frame may still make, counting those of the
\* projection after the dependency tests.
Remaining(fr) ==
  LET s == SlotAt(state, fr.idx)
      left == Len(callsOf(state, fr)) + 1 - fr.i
  IN IF fr.pc = "deps" THEN left + Len(getterReads(state, s.ref)) + 1 ELSE left

\* No frame makes more calls than there are extension objects.
MaxCalls == Len(Heap)

\* A bound on the evaluation steps still to come: unset and Computing
\* cells weigh more than the calls one frame can make.
RECURSIVE SumOver(_, _)
SumOver(f, S) ==
  IF S = {} THEN 0
  ELSE LET x == CHOOSE y \in S : TRUE IN f[x] + SumOver(f, S \ {x})

Work ==
  SumOver([idx \in Slots(state) |->
             IF Unset(StatusAt(state, idx)) THEN MaxCalls + 2
             ELSE IF StatusAt(state, idx) = Computing THEN 1 ELSE 0], Slots(state))
  + SumOver([k \in DOMAIN stack |-> Remaining(stack[k])], DOMAIN stack)

\* Every step of the evaluation that changes something uses up Work, so
\* the evaluation of one snapshot takes finitely many steps.
EvaluationDecreases ==
  [][(Evaluating /\ error' = "none") =>
       /\ \A k \in DOMAIN stack : Remaining(stack[k]) \in 0..MaxCalls
       /\ Work' < Work]_vars

\* C15: the ensureAddr recursion is never deeper than the number of
\* dynamic slots; the construction of a snapshot ends with the cyclic
\* dependency error or with every status cell Computed, and whenever no
\* slot is being evaluated no cell is Computing.
C15_Terminates ==
  (state.exists /\ phase = "state") =>
    /\ Len(stack) <= NSlots
    /\ error \in {"none", CyclicError, "TypeError in resolve"}
    /\ (error = "none" /\ stack = <<>>) =>
         \A idx \in Slots(state) :
           \/ Unset(StatusAt(state, idx))
           \/ StatusAt(state, idx) \in {Computed, Computed + Changed}

(***************************************************************************)
(* The shape of a resolved Configuration.                                  *)
(***************************************************************************)
\* C16: the statusTemplate of the resolved Configuration has one cell per
\* dynamic slot and every cell is Uninitialized.
C16_TemplatePerSlot ==
  state.exists =>
    /\ Len(state.config.statusTemplate) = Len(state.config.dynamicSlots)
    /\ \A i \in DOMAIN state.config.statusTemplate :
         state.config.statusTemplate[i] = Uninitialized


(***************************************************************************)
(* What the evaluation of a snapshot writes.                               *)
(***************************************************************************)
\* C17: a step of the evaluation of the snapshot under construction leaves
\* the transition descriptor with its start snapshot (values, status and
\* Configuration), and the Configuration's slots, address table and static
\* values as they are; it writes at most the snapshot's own values and
\* status cells.
C17_WritesOwnArrays ==
  [][Evaluating =>
       /\ state'.applying = state.applying
       /\ state'.config = state.config
       /\ state'.doc = state.doc
       /\ DOMAIN state'.values = DOMAIN state.values
       /\ DOMAIN state'.status = DOMAIN state.status]_vars

\* C17 witness: on a transition that keeps the Configuration a slot has
\* stored a new value, and the start snapshot still holds the old one.
C17_Witness ==
  /\ NonReconfiguring
  /\ \E idx \in Slots(state) :
       /\ StatusAt(state, idx) = Computed + Changed
       /\ At(state.values, idx) # At(StartState.values, idx)
       /\ StatusAt(StartState, idx) \in {Computed, Computed + Changed}


(***************************************************************************)
(* The evaluation in the order of the slots: ensureAddr(state, i << 1) for *)
(* i = 0, 1, .. with the recursion run to its end at each call.            *)
(***************************************************************************)
RECURSIVE Force(_, _), Drive(_, _)
\* ensureAddr(m.state, addr) run to its return: m with the status it
\* returns in ret, or with the error it raises.
Force(m, addr) ==
  LET idx == Shr1(addr)
      branch == ensureAddr(m.state, addr)
  IN CASE branch = "static" -> [m EXCEPT !.ret = Computed]
       [] branch = "cyclic" -> [m EXCEPT !.error = CyclicError]
       [] branch = "computed" -> [m EXCEPT !.ret = StatusAt(m.state, idx)]
       [] OTHER -> Drive([m EXCEPT !.state.status[idx + 1] = Computing],
                         enterSlot(m.state, idx))

\* The slot function of frame fr from its next ensureAddr call on.
Drive(m, fr) ==
  IF hasCall(m.state, fr)
  THEN LET m1 == Force(m, callAddr(m.state, fr))
       IN IF m1.error # "none" THEN m1 ELSE Drive(m1, resume(fr, m1.ret))
  ELSE LET out == runSlot(m.state, fr, m.calls)
       IN IF out.error # "none" THEN [m EXCEPT !.error = out.error]
          ELSE [m EXCEPT !.state.values = out.values,
                         !.state.status[fr.idx + 1] = Computed + out.changed,
                         !.calls = out.calls,
                         !.ret = Computed + out.changed]

RECURSIVE ForceFrom(_, _)
ForceFrom(m, idx) ==
  IF idx >= Len(m.state.config.dynamicSlots) \/ m.error # "none" THEN m
  ELSE ForceFrom(Force(m, DynAddr(idx)), idx + 1)

InOrder(st) == ForceFrom([state |-> st, calls |-> NoCalls, error |-> "none", ret |-> 0], 0)

\* The snapshot of this transition before any slot is evaluated.
Unevaluated == NewState(state.config, state.applying, state.doc)

\* C18: when the construction of a snapshot has completed, its values and
\* status cells are those of the evaluation in slot order, whatever order
\* the consumers called ensureAddr in.
C18_OrderIndependent ==
  Finished =>
    /\ InOrder(Unevaluated).error = "none"
    /\ InOrder(Unevaluated).state.values = state.values
    /\ InOrder(Unevaluated).state.status = state.status

\* C18 witness: the snapshot completed although a consumer asked for a
\* combine slot before one of its members, the member being evaluated
\* inside the combine slot's call.
C18_Witness ==
  /\ phase = "state" /\ error = "none" /\ Len(stack) = 2
  /\ SlotAt(state, stack[1].idx).kind = "facet"
  /\ stack[2].idx < stack[1].idx
  /\ \E idx \in Slots(state) : idx < stack[2].idx /\ Unset(StatusAt(state, idx))


(***************************************************************************)
(* The address table of a resolved Configuration.                          *)
(***************************************************************************)
\* The ids with a dynamic address.
DynamicIds ==
  {id \in Ids : state.config.address[id] # undefined /\ Bit(state.config.address[id]) = 0}

\* The id of the field, provider or facet that the slot idx was made for.
SlotId(idx) ==
  LET s == SlotAt(state, idx)
  IN CASE s.kind = "field" -> s.id
       [] s.kind = "provider" -> Heap[s.ref].id
       [] OTHER -> s.facet

FieldsIn(e) ==
  {Heap[flatten(e)[i]].id : i \in {k \in DOMAIN flatten(e) : Heap[flatten(e)[k]].type = "field"}}

\* C19: every dynamic slot index is the address of exactly one id, the id
\* the slot was made for; every dynamic address is the index of a slot; and
\* every field id in the extension tree has exactly one field slot.
C19_AddressesMatchSlots ==
  state.exists =>
    /\ \A idx \in Slots(state) :
         {id \in DynamicIds : Shr1(state.config.address[id]) = idx} = {SlotId(idx)}
    /\ \A id \in DynamicIds : Shr1(state.config.address[id]) \in Slots(state)
    /\ \A f \in FieldsIn(ext) :
         Cardinality({idx \in FieldSlots : SlotAt(state, idx).id = f}) = 1


(***************************************************************************)
(* The dependencies a provider slot forces.                                *)
(***************************************************************************)
\* The dynamic addresses of the fields and facets the provider declares.
DeclaredAddrs(p) ==
  {state.config.address[Heap[p].dependencies[i].id] :
     i \in {k \in DOMAIN Heap[p].dependencies :
              /\ Heap[p].dependencies[k].t \in {"field", "facet"}
              /\ state.config.address[Heap[p].dependencies[k].id] # undefined
              /\ Bit(state.config.address[Heap[p].dependencies[k].id]) = 0}}

\* The innermost activation is a provider slot about to call ensureAddr in
\* its dependency test (line 101).
DependencyCall ==
  /\ phase = "state" /\ error = "none" /\ stack # <<>>
  /\ SlotAt(state, Top.idx).kind = "provider"
  /\ Top.pc = "deps"
  /\ hasCall(state, Top)

\* C20: the address of every ensureAddr call of a provider slot's
\* dependency test is the dynamic address of a field or facet the provider
\* declares, and the cyclic-dependency error is raised only when some slot
\* depends on itself.
C20_DeclaredDependenciesOnly ==
  /\ DependencyCall => callAddr(state, Top) \in DeclaredAddrs(SlotAt(state, Top.idx).ref)
  /\ error = CyclicError => \E idx \in Slots(state) : OnCycle(state, idx)

====
